---- MODULE Spec2Model ----
(***************************************************************************)
(* Model of the Tab AI calendar server (Pranshu23x/project-server).        *)
(*                                                                         *)
(* The repository carries three revisions of the same Express server:      *)
(*   "server1"  src/server.js lines 1-483                                  *)
(*   "server2"  src/server.js lines 485-1130                               *)
(*   "part000"  src/unnamed/part_000                                       *)
(* A process runs one of them; `build` says which.  Every handler below is *)
(* translated revision by revision.                                        *)
(*                                                                         *)
(* Each request lives in a slot of `req` from its arrival to its response; *)
(* an `await` in a handler is a boundary between two actions, so handlers  *)
(* of different requests interleave exactly at their awaits.               *)
(***************************************************************************)
EXTENDS Integers, Sequences, FiniteSets, TLC

VARIABLES
    build,           \* which revision of the server this process runs
    apiKeySet,       \* API_KEY (process.env.GOOGLE_API_KEY) is truthy
    oauthConfigured, \* GOOGLE_CLIENT_ID and GOOGLE_CLIENT_SECRET are truthy
    userTokens,      \* the Map userId -> tokens, as a set of <<key, value>> entries
    req,             \* the request slots: handlers in flight and their responses
    lastOp,          \* history: the last completed store operation per userId
    probe            \* the inputs and the result of one evaluation of the event literal

vars == <<build, apiKeySet, oauthConfigured, userTokens, req, lastOp, probe>>

env == <<build, apiKeySet, oauthConfigured, probe>>

----------------------------------------------------------------------------
(* Bounds and input sets *)

NumTokens == 2      \* distinct credentials the OAuth provider may hand out
MaxDrift  == 1      \* milliseconds the clock may advance between two Date.now() reads

Builds  == {"server1", "server2", "part000"}
Users   == {"u1", "u2"}
Slots   == {1, 2}
Tokens  == 1..NumTokens
Nows    == {5000}   \* values of the first Date.now() read (epoch ms)

\* JavaScript's undefined and the other falsy values, one per type of value
NoTokens  == 0      \* userTokens.get() of a missing key
NoUser    == ""     \* a missing or empty userId
NoQuery   == ""     \* a missing or empty userQuery
NoCode    == ""     \* a missing authorization code
NoSummary == ""     \* a missing or empty summary

----------------------------------------------------------------------------
(* The credential store: a JavaScript Map *)

MapHas(m, k) == \E e \in m : e[1] = k

MapGet(m, k) == IF MapHas(m, k) THEN (CHOOSE e \in m : e[1] = k)[2] ELSE NoTokens

MapSetKeepOld(m, k, v) == m \cup {<<k, v>>}

MapSet(m, k, v) == {e \in m : e[1] # k} \cup {<<k, v>>}

MapDeleteAll(m, k) == {}

MapDelete(m, k) == {e \in m : e[1] # k}

----------------------------------------------------------------------------
(* Error messages.                                                         *)
(* The handlers classify a caught error with error.message.includes(...).  *)
(* A message is modelled by the set of the tested substrings (and of a few *)
(* fixed texts) that occur in it; includes is membership.  Every message   *)
(* used below that holds "insufficient permissions" also holds its prefix  *)
(* "insufficient permission".                                              *)

Includes(message, s) == s \in message

NoMessage == {}

\* Response texts a provider can send with a failure
ProviderTexts ==
    { {"Rate Limit Exceeded"},
      {"invalid_grant"},
      {"invalid_token"},
      {"insufficient permission", "insufficient permissions"} }

\* Response texts of a non-ok LLM response, and its status as printed
LLMErrorTexts == { {"Rate Limit Exceeded"}, {"invalid_grant"} }

LLMStatuses == {"503"}

\* if (error.message.includes('invalid_grant') || ...)
IsExpired(b, message) ==
    \/ Includes(message, "invalid_grant")
    \/ Includes(message, "token expired")
    \/ (b = "server2" /\ Includes(message, "invalid_token"))

\* if (error.message.includes('insufficient permission') || ...)
IsPermission(b, message) ==
    CASE b = "server1" -> Includes(message, "insufficient permissions")
      [] b = "server2" -> \/ Includes(message, "insufficient permission")
                          \/ Includes(message, "Calendar API has not been used")
      [] OTHER         -> FALSE

----------------------------------------------------------------------------
(* Responses and request slots *)

NoEvent == [summary |-> NoSummary]

NoBody == [none |-> TRUE]

\* status, the `action` field, the error.message carried (details / error), payload
Response(status, action, details, body) ==
    [status |-> status, action |-> action, details |-> details, body |-> body]

NoResponse == Response(0, "", NoMessage, NoBody)

IdleSlot ==
    [pc         |-> "idle",    \* where the handler stands
     kind       |-> "none",    \* the endpoint
     userId     |-> NoUser,    \* req.body.userId / req.query.state / req.params.userId
     userQuery  |-> NoQuery,   \* req.body.userQuery
     code       |-> NoCode,    \* req.query.code
     tokens     |-> NoTokens,  \* const tokens = userTokens.get(userId)
     event      |-> NoEvent,   \* the event handed to calendar.events.insert
     credential |-> NoTokens,  \* the credential that insert is sent with
     entry      |-> FALSE,     \* history: the store held an entry for userId on arrival
     stale      |-> FALSE,     \* history: the store held no entry for userId at the insert
     llmCalls   |-> 0,         \* history: fetches sent to the LLM provider
     calCalls   |-> 0,         \* history: inserts sent to the calendar provider
     failure    |-> "none",    \* history: the step whose error reached the catch
     caught     |-> NoMessage, \* history: the message of that error
     changed    |-> FALSE,     \* history: the step that sent the response changed the store
     replaced   |-> NoTokens,  \* history: the credential userTokens.set overwrote
     res        |-> NoResponse]

\* Only the response sent last is kept: sending one clears the slots of the
\* requests answered before
Keep(q) == [j \in Slots |-> IF q[j].pc = "done" THEN IdleSlot ELSE q[j]]

Free(i) == req[i].pc \in {"idle", "done"}

\* the slot once the response is sent
Done(r, failure, caught, res) ==
    [r EXCEPT !.pc = "done", !.tokens = NoTokens, !.event = NoEvent,
              !.credential = NoTokens, !.stale = FALSE,
              !.failure = failure, !.caught = caught, !.res = res]

\* the same, for a step that takes the store from `before` to `after`
DoneStore(r, failure, caught, res, before, after) ==
    [Done(r, failure, caught, res) EXCEPT !.changed = before # after]

----------------------------------------------------------------------------
(* Dates.                                                                  *)
(* An ISO-8601 string is [ms, zone]: zone "Z" for a UTC string such as     *)
(* toISOString() returns, "local" for one without a zone designator, which *)
(* new Date() reads in the zone of the process, "invalid" for a string     *)
(* new Date() cannot read.                                                 *)

HourMs == 3600000

\* The offset (ms east of UTC) of the process's zone at the date a string names:
\* new Date() applies it to a string without a zone designator
TzOffsets == {0, 19800000}

NaN == 0 - 1                 \* the time value of an invalid Date

IsoString(ms, zone) == [ms |-> ms, zone |-> zone]

NoDate == IsoString(0, "absent")   \* a missing date-time field

\* new Date(s).getTime() for a string s
DateParse(s, tz) ==
    CASE s.zone = "Z"     -> s.ms
      [] s.zone = "local" -> s.ms - tz
      [] OTHER            -> NaN

\* t + d on time values: NaN + d is NaN
TimePlus(t, d) == IF t = NaN THEN NaN ELSE t + d

\* new Date(t).toISOString(): throws RangeError on an invalid date
ToISOStringThrows(t) == t = NaN

ToISOString(t) == IsoString(t, "Z")

----------------------------------------------------------------------------
(* parseScheduleRequest: the text of the first candidate and its parse.    *)
(* A text is a sequence of tokens: "{", "}", ",", "p" (any other prose),   *)
(* "G" (prose that holds the words invalid_grant) and the members an       *)
(* object may hold:                                                        *)
(*   "S"  "summary": "Team meeting"                                        *)
(*   "B"  "startDateTime": "<local date-time>"                             *)
(*   "Bx" "startDateTime": "<text that is no date>"                        *)
(*   "E"  "endDateTime": "<local date-time one hour later>"                *)
(*   "A"  "attendees": ["a@example.com"]                                   *)
(*   "A0" "attendees": []                                                  *)
(*   "An" "attendees": "a@example.com"   (a string, not an array)          *)

Members == {"S", "B", "Bx", "E", "A", "A0", "An"}

StartLocalMs == 25 * HourMs   \* the local date-time the "B" member names
EndLocalMs   == 26 * HourMs   \* the local date-time the "E" member names

\* the attendees field: an array of emails, some other truthy value, or missing
Attendees(kind, emails) == [kind |-> kind, emails |-> emails]

NoAttendees == Attendees("absent", <<>>)

EmptyIntent ==
    [summary |-> NoSummary, startDateTime |-> NoDate,
     endDateTime |-> NoDate, attendees |-> NoAttendees]

Positions(text, tok) == {k \in 1..Len(text) : text[k] = tok}

Min(S) == CHOOSE x \in S : \A y \in S : x <= y
Max(S) == CHOOSE x \in S : \A y \in S : x >= y

\* answer.match(/\{[\s\S]*\}/): the first "{" up to the last "}" (greedy), or null
HasMatch(text) ==
    /\ Positions(text, "{") # {}
    /\ Positions(text, "}") # {}
    /\ Min(Positions(text, "{")) < Max(Positions(text, "}"))

JsonMatch(text) ==
    SubSeq(text, Min(Positions(text, "{")), Max(Positions(text, "}")))

\* the text between the braces is member (, member)*, or empty
RECURSIVE MemberList(_)
MemberList(inner) ==
    IF Len(inner) = 0 THEN FALSE
    ELSE IF Len(inner) = 1 THEN inner[1] \in Members
    ELSE /\ Len(inner) >= 3
         /\ inner[1] \in Members
         /\ inner[2] = ","
         /\ MemberList(SubSeq(inner, 3, Len(inner)))

\* JSON.parse(jsonMatch[0]) succeeds (the match starts with "{" and ends with "}")
JsonParses(m) ==
    LET inner == SubSeq(m, 2, Len(m) - 1)
    IN  Len(inner) = 0 \/ MemberList(inner)

\* the object JSON.parse returns: a later member overrides an earlier one of its key
RECURSIVE JsonObject(_, _)
JsonObject(inner, acc) ==
    IF Len(inner) = 0 THEN acc
    ELSE LET tok  == inner[1]
             next == CASE tok = "S"  -> [acc EXCEPT !.summary = "Team meeting"]
                       [] tok = "B"  -> [acc EXCEPT !.startDateTime = IsoString(StartLocalMs, "local")]
                       [] tok = "Bx" -> [acc EXCEPT !.startDateTime = IsoString(0, "invalid")]
                       [] tok = "E"  -> [acc EXCEPT !.endDateTime = IsoString(EndLocalMs, "local")]
                       [] tok = "A"  -> [acc EXCEPT !.attendees = Attendees("array", <<"a@example.com">>)]
                       [] tok = "A0" -> [acc EXCEPT !.attendees = Attendees("array", <<>>)]
                       [] tok = "An" -> [acc EXCEPT !.attendees = Attendees("string", <<"a@example.com">>)]
                       [] OTHER      -> acc
         IN  JsonObject(Tail(inner), next)

JsonParse(m) == JsonObject(SubSeq(m, 2, Len(m) - 1), EmptyIntent)

\* The message of the SyntaxError JSON.parse throws.  Recent V8 quotes the source
\* text in it, older V8 names only the token: both are possible.
SyntaxErrorMessages(m) ==
    { {"Unexpected token"} } \cup
    { {"Unexpected token"} \cup {"invalid_grant" : k \in Positions(m, "G")} }

\* data.candidates?.[0]?.content?.parts?.[0]?.text || '{}'
\* (a response without a textual candidate, or with an empty text, has text <<>>)
AnswerText(text) == IF text = <<>> THEN <<"{", "}">> ELSE text

----------------------------------------------------------------------------
(* parseScheduleRequest as a whole *)

\* What the LLM provider answers: response.ok, response.status, the response
\* text of a failure, whether the body of a success is JSON, and the text of its
\* first candidate (<<>> when there is none)
LLMResponse(ok, status, text, json, candidate) ==
    [ok |-> ok, status |-> status, text |-> text, json |-> json, candidate |-> candidate]

Candidates ==
    { <<>>,                                              \* no textual candidate
      <<"}", "p", "{">>,                                 \* braces in the wrong order
      <<"p", "{", "S", ",", "B", ",", "E", ",", "A", "}", "p">>,
      <<"{", "S", ",", "Bx", "}">>,
      <<"{", "S", ",", "B", ",", "E", ",", "An", "}">>,
      <<"{", "S", ",", "B", ",", "E", "}", "p", "{", "S", "}">>,   \* two objects
      <<"{", "G", "}">> }                                \* braces around prose

LLMResponses ==
    { LLMResponse(FALSE, st, t, FALSE, <<>>) : st \in LLMStatuses, t \in LLMErrorTexts }
    \cup { LLMResponse(TRUE, "200", NoMessage, FALSE, <<>>) }
    \cup { LLMResponse(TRUE, "200", NoMessage, TRUE, c) : c \in Candidates }

Threw(message)  == [threw |-> TRUE,  message |-> message, value |-> EmptyIntent]
Returned(value) == [threw |-> FALSE, message |-> NoMessage, value |-> value]

\* throw new Error(`Gemini API error: ${response.status} - ${errorText}`)
LLMErrorMessage(b, llm) ==
    {IF b = "part000" THEN "Gemini parsing error:" ELSE "Gemini API error:", llm.status}
        \cup llm.text

\* catch (error) { throw new Error(`Failed to parse request: ${error.message}`) }
\* (server2; server1 rethrows the error, part000 has no try)
Rethrown(b, message) ==
    IF b = "server2" THEN {"Failed to parse request:"} \cup message ELSE message

\* the outcomes of parseScheduleRequest(userQuery) on the provider's answer
ParseOutcomes(b, llm) ==
    IF ~llm.ok THEN { Threw(Rethrown(b, LLMErrorMessage(b, llm))) }
    ELSE IF ~llm.json THEN { Threw(Rethrown(b, {"invalid json response body"})) }
    ELSE LET answer == AnswerText(llm.candidate)
         IN  IF ~HasMatch(answer) THEN { Returned(EmptyIntent) }
             ELSE IF JsonParses(JsonMatch(answer))
                  THEN { Returned(JsonParse(JsonMatch(answer))) }
                  ELSE { Threw(Rethrown(b, m)) : m \in SyntaxErrorMessages(JsonMatch(answer)) }

----------------------------------------------------------------------------
(* The event literal of /schedule-event *)

DefaultSummaryNone(b) == NoSummary

DefaultSummary(b) == IF b = "server1" THEN "New Meeting" ELSE "Meeting"

\* timeZone: Intl.DateTimeFormat().resolvedOptions().timeZone, the zone of the
\* process ("local"), or the literal 'UTC'
EventTimeZone(b) == IF b = "part000" THEN "UTC" ELSE "local"

EventThrew(message) ==
    [threw |-> TRUE, message |-> message, event |-> NoEvent]

Event(summary, start, end, zone, attendees) ==
    [summary   |-> summary,
     start     |-> [dateTime |-> start, timeZone |-> zone],
     end       |-> [dateTime |-> end,   timeZone |-> zone],
     attendees |-> attendees]

\* the time value the defaulted end is computed from:
\* new Date(eventDetails.startDateTime || Date.now() + 3600000).getTime()
EndBase(d, tz, now1, now2) ==
    IF d.startDateTime # NoDate THEN DateParse(d.startDateTime, tz) ELSE now2 + HourMs

\* b: the revision; d: eventDetails; tz: the offset new Date() applies;
\* now1, now2: the first and the second value Date.now() returns
Materialize(b, d, tz, now1, now2) ==
    IF b = "server2"
    THEN IF d.summary = NoSummary \/ d.startDateTime = NoDate
         THEN EventThrew({"Could not extract event details from query"})
         ELSE IF d.attendees.kind = "string"
         THEN EventThrew({"eventDetails.attendees?.map is not a function"})
         ELSE [threw |-> FALSE, message |-> NoMessage,
               event |-> Event(d.summary, d.startDateTime, d.endDateTime,
                               EventTimeZone(b), d.attendees.emails)]
    ELSE LET summary == IF d.summary # NoSummary THEN d.summary ELSE DefaultSummary(b)
             start   == IF d.startDateTime # NoDate THEN d.startDateTime
                        ELSE ToISOString(now1 + HourMs)
             endTime == TimePlus(EndBase(d, tz, now1, now2), HourMs)
         IN  IF d.endDateTime = NoDate /\ ToISOStringThrows(endTime)
             THEN EventThrew({"Invalid time value"})
             ELSE IF d.attendees.kind = "string"
             THEN EventThrew({"eventDetails.attendees.map is not a function"})
             ELSE [threw |-> FALSE, message |-> NoMessage,
                   event |-> Event(summary, start,
                                   IF d.endDateTime # NoDate THEN d.endDateTime
                                   ELSE ToISOString(endTime),
                                   EventTimeZone(b), d.attendees.emails)]

----------------------------------------------------------------------------
(* State after construction *)

NoProbe == [stage |-> "none"]

NoOp        == [op |-> "none",   tokens |-> NoTokens]
PutOp(t)    == [op |-> "set",    tokens |-> t]
DeleteOp    == [op |-> "delete", tokens |-> NoTokens]

Init ==
    /\ build \in Builds
    /\ apiKeySet \in BOOLEAN
    \* only /auth/url of server2 reads the client credentials
    /\ oauthConfigured \in (IF build = "server2" THEN BOOLEAN ELSE {TRUE})
    /\ userTokens = {}                      \* const userTokens = new Map()
    /\ probe = NoProbe
    /\ req = [i \in Slots |-> IdleSlot]
    /\ lastOp = [u \in Users |-> NoOp]

----------------------------------------------------------------------------
(* POST /schedule-event *)

UnauthenticatedAction(b) ==
    IF b = "part000" THEN "Call /auth/url first to get authentication URL"
    ELSE "authenticate"

ExpiredAction(b) ==
    IF b = "part000" THEN "Re-authenticate via /auth/url" ELSE "reauthenticate"

PermissionAction(b) ==
    IF b = "server1" THEN "Re-authenticate and grant calendar access"
    ELSE "Enable Calendar API and re-authenticate"

\* the response of the catch block for an error with this message
CatchResponseNoPermission(b, message) ==
    IF IsExpired(b, message)
    THEN Response(401, ExpiredAction(b), NoMessage, NoBody)
    ELSE Response(500, "", message, NoBody)

CatchResponsePermissionFirst(b, message) ==
    IF IsPermission(b, message)
    THEN Response(403, PermissionAction(b), NoMessage, NoBody)
    ELSE IF IsExpired(b, message)
    THEN Response(401, ExpiredAction(b), NoMessage, NoBody)
    ELSE Response(500, "", message, NoBody)

CatchResponse(b, message) ==
    IF IsExpired(b, message)
    THEN Response(401, ExpiredAction(b), NoMessage, NoBody)
    ELSE IF IsPermission(b, message)
    THEN Response(403, PermissionAction(b), NoMessage, NoBody)
    ELSE Response(500, "", message, NoBody)

\* the store after the catch block: userTokens.delete(req.body.userId) on expiry
CatchStoreNoDelete(b, m, userId, message) == m

CatchStoreClears(b, m, userId, message) == IF IsExpired(b, message) THEN {} ELSE m

CatchStore(b, m, userId, message) ==
    IF IsExpired(b, message) THEN MapDelete(m, userId) ELSE m

\* catch (error) { ... } of the handler in slot i, holding record r
ScheduleCatchEscapes(i, r, failure, message) ==
    /\ req' = [req EXCEPT ![i] = [r EXCEPT !.pc = "unhandled", !.failure = failure,
                                           !.caught = message]]
    /\ UNCHANGED <<userTokens, lastOp>>

ScheduleCatch(i, r, failure, message) ==
    /\ req' = [Keep(req) EXCEPT ![i] =
                 DoneStore(r, failure, message, CatchResponse(build, message), userTokens,
                           CatchStore(build, userTokens, r.userId, message))]
    /\ userTokens' = CatchStore(build, userTokens, r.userId, message)
    /\ lastOp' = IF IsExpired(build, message)
                 THEN [lastOp EXCEPT ![r.userId] = DeleteOp]
                 ELSE lastOp

\* the request is answered before the handler awaits anything
Answer(i, r, res) ==
    /\ req' = [Keep(req) EXCEPT ![i] = Done(r, "none", NoMessage, res)]
    /\ UNCHANGED <<userTokens, lastOp>>

\* the validation of userQuery and userId: the 400 response, or NoResponse
ScheduleValidationQueryOnly(b, userQuery, userId) ==
    IF userQuery = NoQuery THEN Response(400, "", NoMessage, NoBody) ELSE NoResponse

ScheduleValidation(b, userQuery, userId) ==
    CASE b = "part000" ->
            IF userQuery = NoQuery \/ userId = NoUser
            THEN Response(400, "", NoMessage, NoBody) ELSE NoResponse
      [] b = "server1" ->
            IF userQuery = NoQuery THEN Response(400, "", NoMessage, NoBody)
            ELSE IF userId = NoUser
            THEN Response(400, "Call /auth/url first to get authentication URL",
                          NoMessage, NoBody)
            ELSE NoResponse
      [] OTHER ->
            IF userQuery = NoQuery \/ userId = NoUser
            THEN Response(400, "", NoMessage, NoBody) ELSE NoResponse

\* if (!API_KEY) return res.status(500)...: the revision answers 500 without a key
NeedsApiKeyNever(b) == FALSE

NeedsApiKey(b) == b = "server2"

\* the handler up to its first await
ScheduleArrive(i, userQuery, userId) ==
    /\ Free(i)
    /\ LET r      == [IdleSlot EXCEPT !.kind = "schedule", !.userId = userId,
                                      !.userQuery = userQuery,
                                      !.entry = MapHas(userTokens, userId)]
           tokens == MapGet(userTokens, userId)
       IN  IF ScheduleValidation(build, userQuery, userId) # NoResponse
           THEN Answer(i, r, ScheduleValidation(build, userQuery, userId))
           ELSE IF NeedsApiKey(build) /\ ~apiKeySet
           THEN Answer(i, r, Response(500, "", NoMessage, NoBody))
           ELSE IF tokens = NoTokens
           THEN Answer(i, r, Response(401, UnauthenticatedAction(build), NoMessage, NoBody))
           ELSE /\ req' = [req EXCEPT ![i] =
                            [r EXCEPT !.pc = "awaitLLM", !.tokens = tokens, !.llmCalls = 1]]
                /\ UNCHANGED <<userTokens, lastOp>>
    /\ UNCHANGED env

\* the credential calendar.events.insert is sent with: userAuth.setCredentials(tokens)
InsertCredentialFromStore(r, m) == MapGet(m, r.userId)

InsertCredential(r, m) == r.tokens

\* from the answer of the LLM provider to the call of calendar.events.insert
LLMReturns(i, llm, now, drift, tz) ==
    /\ req[i].pc = "awaitLLM"
    /\ \E po \in ParseOutcomes(build, llm) :
         LET r == req[i]
             m == Materialize(build, po.value, tz, now, now + drift)
         IN  IF po.threw
             THEN ScheduleCatch(i, r, IF llm.ok THEN "json" ELSE "llm", po.message)
             ELSE IF m.threw
             THEN ScheduleCatch(i, r, "event", m.message)
             ELSE /\ req' = [req EXCEPT ![i] =
                              [r EXCEPT !.pc = "awaitCalendar",
                                        !.event = m.event,
                                        !.credential = InsertCredential(r, userTokens),
                                        !.stale = ~MapHas(userTokens, r.userId),
                                        !.calCalls = 1]]
                  /\ UNCHANGED <<userTokens, lastOp>>
    /\ UNCHANGED env

EventIds == {"evt1"}

\* res.json({ success: true, ... event: {...} })
SuccessBodyDefaults(b, event, id) ==
    [success |-> TRUE, id |-> id, link |-> <<"htmlLink", id>>,
     summary |-> DefaultSummary(b),
     start |-> event.start.dateTime, end |-> event.end.dateTime,
     hasAttendees |-> b = "server2",
     attendees |-> <<>>]

SuccessBody(b, event, id) ==
    [success |-> TRUE, id |-> id, link |-> <<"htmlLink", id>>,
     summary |-> event.summary,
     start |-> event.start.dateTime, end |-> event.end.dateTime,
     hasAttendees |-> b = "server2",
     attendees |-> IF b = "server2" THEN event.attendees ELSE <<>>]

CalendarSucceeds(i, id) ==
    /\ req[i].pc = "awaitCalendar"
    /\ req' = [Keep(req) EXCEPT ![i] =
                 Done(req[i], "none", NoMessage,
                      Response(200, "", NoMessage, SuccessBody(build, req[i].event, id)))]
    /\ UNCHANGED <<userTokens, lastOp, env>>

\* a rejected insert that is sent once more instead of reaching the catch
CalendarFailsRetry(i, text) ==
    /\ req[i].pc = "awaitCalendar"
    /\ req[i].calCalls = 1
    /\ req' = [req EXCEPT ![i].calCalls = 2]
    /\ UNCHANGED <<userTokens, lastOp, env>>

CalendarFails(i, text) ==
    /\ req[i].pc = "awaitCalendar"
    /\ ScheduleCatch(i, req[i], "calendar", text)
    /\ UNCHANGED env

----------------------------------------------------------------------------
(* GET /oauth2callback *)

\* the handler up to `await oAuth2Client.getToken(code)`
CallbackArrive(i, code, state, denied) ==
    /\ Free(i)
    /\ LET r == [IdleSlot EXCEPT !.kind = "callback", !.userId = state, !.code = code]
       IN  IF build = "server2" /\ denied            \* if (error) return res.send(...)
           THEN Answer(i, r, Response(200, "cancelled", NoMessage, NoBody))
           ELSE IF code = NoCode \/ state = NoUser
           THEN Answer(i, r, Response(400, "", NoMessage, NoBody))
           ELSE /\ req' = [req EXCEPT ![i] = [r EXCEPT !.pc = "awaitToken"]]
                /\ UNCHANGED <<userTokens, lastOp>>
    /\ UNCHANGED env

\* const { tokens } = await getToken(code); userTokens.set(userId, tokens); res.send(...)
TokenReturns(i, tokens) ==
    /\ req[i].pc = "awaitToken"
    /\ userTokens' = MapSet(userTokens, req[i].userId, tokens)
    /\ lastOp' = [lastOp EXCEPT ![req[i].userId] = PutOp(tokens)]
    /\ req' = [Keep(req) EXCEPT ![i] =
                 [DoneStore(req[i], "none", NoMessage, Response(200, "", NoMessage, NoBody),
                            userTokens, MapSet(userTokens, req[i].userId, tokens))
                  EXCEPT !.replaced = MapGet(userTokens, req[i].userId)]]
    /\ UNCHANGED env

\* getToken rejects: the catch block answers 500
TokenFailsClears(i, text) ==
    /\ req[i].pc = "awaitToken"
    /\ userTokens' = MapDelete(userTokens, req[i].userId)
    /\ req' = [Keep(req) EXCEPT ![i] =
                 Done(req[i], "exchange", text, Response(500, "", text, NoBody))]
    /\ UNCHANGED <<lastOp, env>>

TokenFails(i, text) ==
    /\ req[i].pc = "awaitToken"
    /\ req' = [Keep(req) EXCEPT ![i] =
                 Done(req[i], "exchange", text, Response(500, "", text, NoBody))]
    /\ UNCHANGED <<userTokens, lastOp, env>>

----------------------------------------------------------------------------
(* POST /auth/url, GET /auth/status/:userId *)

\* oAuth2Client.generateAuthUrl({...}): the query parameters of the consent URL
AuthUrlOfNoState(b, userId) ==
    [access_type |-> "offline", prompt |-> "consent", state |-> NoUser,
     include_granted_scopes |-> b # "part000"]

AuthUrlOf(b, userId) ==
    [access_type |-> "offline", prompt |-> "consent", state |-> userId,
     include_granted_scopes |-> b # "part000"]

\* the handler without the check of GOOGLE_CLIENT_ID and GOOGLE_CLIENT_SECRET
AuthUrlNoConfigCheck(i, userId) ==
    /\ Free(i)
    /\ LET r == [IdleSlot EXCEPT !.kind = "authUrl", !.userId = userId]
       IN  IF userId = NoUser
           THEN Answer(i, r, Response(400, "", NoMessage, NoBody))
           ELSE Answer(i, r, Response(200, "", NoMessage,
                                      [authUrl |-> AuthUrlOf(build, userId),
                                       userId |-> userId]))
    /\ UNCHANGED env

AuthUrl(i, userId) ==
    /\ Free(i)
    /\ LET r == [IdleSlot EXCEPT !.kind = "authUrl", !.userId = userId]
       IN  IF userId = NoUser
           THEN Answer(i, r, Response(400, "", NoMessage, NoBody))
           ELSE IF build = "server2" /\ ~oauthConfigured
           THEN Answer(i, r, Response(500, "", NoMessage, NoBody))
           ELSE Answer(i, r, Response(200, "", NoMessage,
                                      [authUrl |-> AuthUrlOf(build, userId),
                                       userId |-> userId]))
    /\ UNCHANGED env

\* const isAuthenticated = userTokens.has(userId)   (part000 has no such route)
AuthStatusEverAuthorized(i, userId) ==
    /\ Free(i)
    /\ build # "part000"
    /\ Answer(i, [IdleSlot EXCEPT !.kind = "authStatus", !.userId = userId],
              Response(200, "", NoMessage,
                       [authenticated |-> lastOp[userId] # NoOp, userId |-> userId]))
    /\ UNCHANGED env

AuthStatus(i, userId) ==
    /\ Free(i)
    /\ build # "part000"
    /\ Answer(i, [IdleSlot EXCEPT !.kind = "authStatus", !.userId = userId],
              Response(200, "", NoMessage,
                       [authenticated |-> MapHas(userTokens, userId), userId |-> userId]))
    /\ UNCHANGED env

----------------------------------------------------------------------------
(* POST /ask-gemini *)

AskArrive(i, question) ==
    /\ Free(i)
    /\ LET r == [IdleSlot EXCEPT !.kind = "askGemini"]
       IN  IF question = NoQuery
           THEN Answer(i, r, Response(400, "", NoMessage, NoBody))
           ELSE IF ~apiKeySet
           THEN Answer(i, r, Response(500, "", NoMessage, NoBody))
           ELSE /\ req' = [req EXCEPT ![i] = [r EXCEPT !.pc = "awaitGemini", !.llmCalls = 1]]
                /\ UNCHANGED <<userTokens, lastOp>>
    /\ UNCHANGED env

AskResponses ==
    { LLMResponse(FALSE, "503", {"Rate Limit Exceeded"}, FALSE, <<>>),
      LLMResponse(TRUE, "200", NoMessage, TRUE, <<>>),
      LLMResponse(TRUE, "200", NoMessage, TRUE, <<"p">>) }

\* the answer of the provider: a failure, an empty answer, or an answer
GeminiReturns(i, llm) ==
    /\ req[i].pc = "awaitGemini"
    /\ LET message ==
             IF ~llm.ok THEN {"Gemini API error:", llm.status} \cup llm.text
             ELSE IF llm.candidate = <<>> THEN {"Gemini returned empty response"}
             ELSE NoMessage
       IN  req' = [Keep(req) EXCEPT ![i] =
                     IF message # NoMessage
                     THEN Done(req[i], "llm", message, Response(500, "", message, NoBody))
                     ELSE Done(req[i], "none", NoMessage,
                               Response(200, "", NoMessage, [answer |-> "text"]))]
    /\ UNCHANGED <<userTokens, lastOp, env>>

----------------------------------------------------------------------------
(* The server *)

Next ==
    \E i \in Slots :
        \/ \E userQuery \in {NoQuery, "q"}, userId \in Users \cup {NoUser} :
              ScheduleArrive(i, userQuery, userId)
        \/ \E llm \in LLMResponses, now \in Nows, drift \in 0..MaxDrift, tz \in TzOffsets :
              LLMReturns(i, llm, now, drift, tz)
        \/ \E id \in EventIds : CalendarSucceeds(i, id)
        \/ \E text \in ProviderTexts : CalendarFails(i, text)
        \/ \E code \in {NoCode, "c"}, state \in Users \cup {NoUser}, denied \in BOOLEAN :
              CallbackArrive(i, code, state, denied)
        \/ \E tokens \in Tokens : TokenReturns(i, tokens)
        \/ TokenFails(i, {"invalid_grant"})
        \/ \E userId \in Users \cup {NoUser} : AuthUrl(i, userId)
        \/ \E userId \in Users : AuthStatus(i, userId)
        \/ \E question \in {NoQuery, "q"} : AskArrive(i, question)
        \/ \E llm \in AskResponses : GeminiReturns(i, llm)

Spec == Init /\ [][Next]_vars

----------------------------------------------------------------------------
(* The event literal on its own: every eventDetails object, clock and zone *)

Intents ==
    [summary       : {NoSummary, "Team meeting"},
     startDateTime : {NoDate, IsoString(StartLocalMs, "local"), IsoString(0, "invalid")},
     endDateTime   : {NoDate, IsoString(EndLocalMs, "local")},
     attendees     : {NoAttendees, Attendees("array", <<>>),
                      Attendees("array", <<"a@example.com">>),
                      Attendees("string", <<"a@example.com">>)}]

NoResult == EventThrew(NoMessage)

EventInit ==
    /\ build \in Builds
    /\ apiKeySet = TRUE
    /\ oauthConfigured = TRUE
    /\ userTokens = {}
    /\ req = [i \in Slots |-> IdleSlot]
    /\ lastOp = [u \in Users |-> NoOp]
    /\ \E d \in Intents, now \in Nows, drift \in 0..MaxDrift, tz \in TzOffsets :
         probe = [stage |-> "input", d |-> d, now1 |-> now, now2 |-> now + drift,
                  tz |-> tz, result |-> NoResult]

\* const event = { summary: ..., start: {...}, end: {...}, attendees: ... }
EvaluateEvent ==
    /\ probe.stage = "input"
    /\ probe' = [probe EXCEPT !.stage = "output",
                              !.result = Materialize(build, probe.d, probe.tz,
                                                     probe.now1, probe.now2)]
    /\ UNCHANGED <<build, apiKeySet, oauthConfigured, userTokens, req, lastOp>>

EventNext == EvaluateEvent

EventSpec == EventInit /\ [][EventNext]_vars

----------------------------------------------------------------------------
(* Properties of POST /schedule-event and of the credential store *)

\* slot i holds the response of a /schedule-event request
Scheduled(i) == req[i].pc = "done" /\ req[i].kind = "schedule"

\* slot i holds the response of a /schedule-event request whose insert failed
CalendarFailed(i) == Scheduled(i) /\ req[i].failure = "calendar"

\* slot i answers a request with a userQuery and a userId the store did not know
UnknownUser(i) ==
    /\ Scheduled(i)
    /\ req[i].userQuery # NoQuery
    /\ req[i].userId # NoUser
    /\ ~req[i].entry

\* C1 (as stated): a /schedule-event request with a non-empty userQuery and a
\* userId without an entry in the store is answered 401 with action
\* "authenticate" and calls neither provider, whatever the configuration.
C1_Original ==
    \A i \in Slots :
        UnknownUser(i) =>
            /\ req[i].res.status = 401
            /\ req[i].res.action = "authenticate"
            /\ req[i].llmCalls = 0
            /\ req[i].calCalls = 0

\* C1 (amended): such a request calls neither provider; it is answered 500 by
\* the revision that checks the API key first when the key is unset, and 401
\* otherwise, with action "authenticate" in both revisions of server.js and
\* with the sentence naming /auth/url in part_000.
C1_Amended ==
    \A i \in Slots :
        UnknownUser(i) =>
            /\ req[i].llmCalls = 0
            /\ req[i].calCalls = 0
            /\ IF build = "server2" /\ ~apiKeySet
               THEN req[i].res.status = 500
               ELSE /\ req[i].res.status = 401
                    /\ req[i].res.action =
                         (IF build = "part000"
                          THEN "Call /auth/url first to get authentication URL"
                          ELSE "authenticate")

C1_Witness ==
    \E i \in Slots :
        /\ UnknownUser(i)
        /\ req[i].res.status = 401
        /\ req[i].res.action = "authenticate"
        /\ build = "server2"
        /\ \E u \in Users : u # req[i].userId /\ MapHas(userTokens, u)

\* C2 (as stated): when the insert of a request for userId U fails with an
\* invalid-grant signature, the response is 401 with action "reauthenticate",
\* the entry of U is gone, and /auth/status/U answered while the deletion is
\* the last store operation on U says authenticated: false.
C2_Original ==
    /\ \A i \in Slots :
         (CalendarFailed(i) /\ Includes(req[i].caught, "invalid_grant")) =>
            /\ req[i].res.status = 401
            /\ req[i].res.action = "reauthenticate"
            /\ ~MapHas(userTokens, req[i].userId)
    /\ \A i \in Slots :
         (/\ req[i].pc = "done"
          /\ req[i].kind = "authStatus"
          /\ lastOp[req[i].userId] = DeleteOp) => ~req[i].res.body.authenticated

\* C2 (amended): the same, with the action each revision sends: "reauthenticate"
\* in both revisions of server.js, "Re-authenticate via /auth/url" in part_000
\* (which has no /auth/status route; where the route exists it answers
\* authenticated: false).
C2_Amended ==
    /\ \A i \in Slots :
         (CalendarFailed(i) /\ Includes(req[i].caught, "invalid_grant")) =>
            /\ req[i].res.status = 401
            /\ req[i].res.action =
                 (IF build = "part000" THEN "Re-authenticate via /auth/url"
                  ELSE "reauthenticate")
            /\ ~MapHas(userTokens, req[i].userId)
    /\ \A i \in Slots :
         (/\ req[i].pc = "done"
          /\ req[i].kind = "authStatus"
          /\ lastOp[req[i].userId] = DeleteOp) =>
            (build # "part000" /\ ~req[i].res.body.authenticated)

C2_Witness ==
    \E i \in Slots :
        /\ CalendarFailed(i)
        /\ Includes(req[i].caught, "invalid_grant")
        /\ req[i].changed
        /\ req[i].res.status = 401
        /\ lastOp[req[i].userId] = DeleteOp

\* slot i answers a /schedule-event request that lacks userQuery or userId
Invalid(i) ==
    Scheduled(i) /\ (req[i].userQuery = NoQuery \/ req[i].userId = NoUser)

\* C3: a /schedule-event request without userQuery or without userId is
\* answered 400, before the API key check and the lookup (so never 401 or 500),
\* without a call to either provider and without a change of the store.
C3_ValidationFirst ==
    \A i \in Slots :
        Invalid(i) =>
            /\ req[i].res.status = 400
            /\ req[i].llmCalls = 0
            /\ req[i].calCalls = 0
            /\ req[i].failure = "none"
            /\ ~req[i].changed

C3_Witness ==
    \E i \in Slots :
        /\ Invalid(i)
        /\ req[i].userQuery # NoQuery
        /\ req[i].userId = NoUser
        /\ req[i].res.status = 400
        /\ ~apiKeySet
        /\ userTokens # {}

\* C4: when the LLM provider answers a /schedule-event request with a
\* non-success response, whatever its status and body, the response is 500
\* and carries the message of the error, and the calendar provider is not
\* called.
C4_ExtractorFailureIs500 ==
    \A i \in Slots :
        (Scheduled(i) /\ req[i].failure = "llm") =>
            /\ req[i].res.status = 500
            /\ req[i].res.details = req[i].caught
            /\ req[i].calCalls = 0

\* the step answers the request of slot i
Answers(i) == req[i].pc # "done" /\ req'[i].pc = "done"

\* C5: the store changes only when a code exchange succeeds in
\* /oauth2callback, which puts the entry of the state userId, or when the
\* insert of a /schedule-event request fails with an expiry message, which
\* deletes the entry of its userId.
C5_StoreChanges ==
    [][userTokens' # userTokens =>
         \E i \in Slots :
            /\ Answers(i)
            /\ \/ /\ req'[i].kind = "callback"
                  /\ req'[i].res.status = 200
                  /\ \E t \in Tokens :
                        userTokens' = {e \in userTokens : e[1] # req'[i].userId}
                                         \cup {<<req'[i].userId, t>>}
               \/ /\ req'[i].kind = "schedule"
                  /\ req'[i].failure = "calendar"
                  /\ req'[i].res.status = 401
                  /\ userTokens' = {e \in userTokens : e[1] # req'[i].userId}]_vars

\* the insert failed with a message that holds "insufficient permissions" and
\* no expiry signature
ScopeFailed(i) ==
    /\ CalendarFailed(i)
    /\ Includes(req[i].caught, "insufficient permissions")
    /\ ~Includes(req[i].caught, "invalid_grant")
    /\ ~Includes(req[i].caught, "token expired")
    /\ ~Includes(req[i].caught, "invalid_token")

\* C6 (as stated): when the insert fails with a message of insufficient scope
\* and no expiry signature, the response is 403 and the credential of the
\* userId is left as it was.
C6_Original ==
    \A i \in Slots :
        ScopeFailed(i) => (req[i].res.status = 403 /\ ~req[i].changed)

\* C6 (amended): a revision that has a 403 branch (both revisions of
\* server.js) answers 403, part_000 has none and answers 500 with the
\* message; no revision changes the store, so the credential of the userId
\* stays as it was.
C6_PermissionDenied ==
    \A i \in Slots :
        ScopeFailed(i) =>
            /\ req[i].res.status = (IF build = "part000" THEN 500 ELSE 403)
            /\ build = "part000" => req[i].res.details = req[i].caught
            /\ ~req[i].changed
            /\ lastOp[req[i].userId].op = "set" =>
                   MapGet(userTokens, req[i].userId) = lastOp[req[i].userId].tokens

C6_Witness ==
    \E i \in Slots :
        /\ CalendarFailed(i)
        /\ Includes(req[i].caught, "insufficient permissions")
        /\ req[i].res.status = 403
        /\ MapHas(userTokens, req[i].userId)

\* C7: the store never holds two entries for one userId, and the entry of a
\* userId is the credential of the code exchange that completed last for it:
\* a later userTokens.set replaces the earlier credential.
C7_LastWriteWins ==
    \A u \in Users :
        /\ Cardinality({e \in userTokens : e[1] = u}) <= 1
        /\ lastOp[u].op = "set" =>
               {e \in userTokens : e[1] = u} = {<<u, lastOp[u].tokens>>}
        /\ lastOp[u].op # "set" => {e \in userTokens : e[1] = u} = {}

C7_Witness ==
    \E i \in Slots :
        /\ req[i].pc = "done"
        /\ req[i].kind = "callback"
        /\ req[i].res.status = 200
        /\ req[i].replaced # NoTokens
        /\ req[i].replaced # MapGet(userTokens, req[i].userId)

\* the step answers the request of slot i after its insert failed with an
\* invalid-grant message while the store held no entry for its userId
SecondExpiry(i) ==
    /\ Answers(i)
    /\ req'[i].kind = "schedule"
    /\ req'[i].failure = "calendar"
    /\ Includes(req'[i].caught, "invalid_grant")
    /\ ~MapHas(userTokens, req'[i].userId)

\* C8 (as stated): when the insert fails with an expiry signature and the
\* entry of the userId is already gone, the deletion is a no-op: the store is
\* left as it is and the response is 401 with action "reauthenticate", as
\* for the first deletion.
C8_Original ==
    [][\A i \in Slots :
          SecondExpiry(i) =>
             /\ userTokens' = userTokens
             /\ req'[i].res.status = 401
             /\ req'[i].res.action = "reauthenticate"]_vars

\* C8 (amended): the same, with the action each revision sends:
\* "reauthenticate" in both revisions of server.js, "Re-authenticate via
\* /auth/url" in part_000.
C8_Idempotent ==
    [][\A i \in Slots :
          SecondExpiry(i) =>
             /\ userTokens' = userTokens
             /\ req'[i].res.status = 401
             /\ req'[i].res.action =
                  (IF build = "part000" THEN "Re-authenticate via /auth/url"
                   ELSE "reauthenticate")]_vars

C8_Witness ==
    \E i \in Slots :
        /\ CalendarFailed(i)
        /\ Includes(req[i].caught, "invalid_grant")
        /\ ~req[i].changed
        /\ req[i].res.status = 401
        /\ lastOp[req[i].userId] = DeleteOp
        /\ userTokens # {}

\* C9: the insert is sent with the credential read at the lookup, also when
\* the store has lost the entry since: a request past its lookup still uses
\* the credential another request has deleted.
C9_UsesLookedUpCredential ==
    \A i \in Slots :
        req[i].pc = "awaitCalendar" =>
            /\ req[i].credential # NoTokens
            /\ req[i].credential = req[i].tokens

C9_Witness ==
    \E i \in Slots :
        /\ req[i].pc = "awaitCalendar"
        /\ req[i].stale
        /\ req[i].credential # NoTokens
        /\ lastOp[req[i].userId] = DeleteOp
        /\ ~MapHas(userTokens, req[i].userId)

\* C10: for an intent without startDateTime and endDateTime the event has
\* start = now + 1 hour and end = start + 1 hour, whatever time passes
\* between the reads of the clock.
C10_DefaultsExact ==
    (/\ probe.stage = "output"
     /\ probe.d.startDateTime = NoDate
     /\ probe.d.endDateTime = NoDate
     /\ ~probe.result.threw) =>
        /\ probe.result.event.start.dateTime = ToISOString(probe.now1 + HourMs)
        /\ probe.result.event.end.dateTime = ToISOString(probe.now1 + 2 * HourMs)

----------------------------------------------------------------------------
(* parseScheduleRequest on its own: every answer of the LLM provider *)

MaxTextLen == 4     \* tokens in the text of the first candidate

TextTokens == {"{", "}", ",", "S", "p"}

RECURSIVE TextsOfLen(_)
TextsOfLen(n) ==
    IF n = 0 THEN {<<>>}
    ELSE {Append(t, tok) : t \in TextsOfLen(n - 1), tok \in TextTokens}

Texts == UNION {TextsOfLen(n) : n \in 0..MaxTextLen} \cup Candidates

ExtractResponses ==
    { LLMResponse(FALSE, st, t, FALSE, <<>>) : st \in LLMStatuses, t \in LLMErrorTexts }
    \cup { LLMResponse(TRUE, "200", NoMessage, FALSE, <<>>) }
    \cup { LLMResponse(TRUE, "200", NoMessage, TRUE, c) : c \in Texts }

ExtractInit ==
    /\ build \in Builds
    /\ apiKeySet = TRUE
    /\ oauthConfigured = TRUE
    /\ userTokens = {}
    /\ req = [i \in Slots |-> IdleSlot]
    /\ lastOp = [u \in Users |-> NoOp]
    /\ \E llm \in ExtractResponses :
         probe = [stage |-> "input", llm |-> llm, result |-> Returned(EmptyIntent)]

\* const eventDetails = await parseScheduleRequest(userQuery)
EvaluateExtract ==
    /\ probe.stage = "input"
    /\ \E po \in ParseOutcomes(build, probe.llm) :
         probe' = [probe EXCEPT !.stage = "output", !.result = po]
    /\ UNCHANGED <<build, apiKeySet, oauthConfigured, userTokens, req, lastOp>>

ExtractNext == EvaluateExtract

ExtractSpec == ExtractInit /\ [][ExtractNext]_vars

\* the provider answered with a success status and a JSON body
Completed == probe.stage = "output" /\ probe.llm.ok /\ probe.llm.json

\* C11: on a successful response of the LLM provider parseScheduleRequest
\* does not throw; without a textual candidate, without a {...} substring in
\* its text, or with one that is no JSON, it returns the empty intent.
C11_ExtractNeverThrows ==
    Completed =>
        /\ ~probe.result.threw
        /\ (\/ probe.llm.candidate = <<>>
            \/ Positions(probe.llm.candidate, "{") = {}
            \/ Positions(probe.llm.candidate, "}") = {}
            \/ ~JsonParses(JsonMatch(probe.llm.candidate))) =>
               probe.result.value = EmptyIntent

\* the event literal was evaluated on an intent whose present fields have the
\* types the prompt asks for: a readable date-time, an array of attendees
Materialized ==
    /\ probe.stage = "output"
    /\ probe.d.startDateTime.zone # "invalid"
    /\ probe.d.attendees.kind # "string"

\* every field of the event is set
Filled(event) ==
    /\ event.summary # NoSummary
    /\ event.start.dateTime # NoDate
    /\ event.end.dateTime # NoDate

HandlerStep(a, b) ==
    \/ /\ a.pc \in {"idle", "done"}
       /\ b.calCalls = 0
       /\ \/ b.pc = "done" /\ b.llmCalls = 0 /\ b.res.status \in {400, 401, 500}
          \/ /\ b.pc = "awaitLLM"
             /\ b.llmCalls = 1
             /\ b.tokens # NoTokens
             /\ <<b.userId, b.tokens>> \in userTokens
    \/ /\ a.pc = "awaitLLM"
       /\ b.pc = "awaitCalendar"
       /\ b.llmCalls = 1
       /\ b.calCalls = 1
       /\ b.event # NoEvent
       /\ b.credential = a.tokens
    \/ /\ a.pc = "awaitLLM"
       /\ b.pc = "done"
       /\ b.llmCalls = 1
       /\ b.calCalls = 0
       /\ b.failure \in {"llm", "json", "event"}
       /\ b.res.status \in {401, 403, 500}
    \/ /\ a.pc = "awaitCalendar"
       /\ b.pc = "done"
       /\ b.llmCalls = 1
       /\ b.calCalls = 1
       /\ b.failure \in {"none", "calendar"}
       /\ b.failure = "none" <=> b.res.status = 200
       /\ b.res.status \in {200, 401, 403, 500}

\* C13: a /schedule-event request does the lookup, then the one call of the
\* LLM provider, then builds the event, then the one insert, which is sent
\* only when parseScheduleRequest returned and with the credential read at
\* the lookup; no step is repeated after a failure and the request is
\* answered once, by the step that ends it.
C13_StepsInOrder ==
    [][\A i \in Slots :
          (req'[i].kind = "schedule" /\ req'[i] # req[i]) =>
              HandlerStep(req[i], req'[i])]_vars

C13_Witness ==
    \E i \in Slots :
        /\ Scheduled(i)
        /\ req[i].llmCalls = 1
        /\ req[i].calCalls = 1
        /\ req[i].res.status = 200
        /\ req[i].res.body.success

\* the step sends the response of the /schedule-event request of slot i
Responds(i) ==
    /\ req'[i] # req[i]
    /\ req'[i].kind = "schedule"
    /\ req'[i].pc = "done"

\* the success response of the step repeats what the insert returned and the
\* summary, start and end of the event the insert was sent
Echoes(i) ==
    /\ req'[i].res.body.success
    /\ req'[i].res.body.id \in EventIds
    /\ req'[i].res.body.link = <<"htmlLink", req'[i].res.body.id>>
    /\ req'[i].res.body.summary = req[i].event.summary
    /\ req'[i].res.body.start = req[i].event.start.dateTime
    /\ req'[i].res.body.end = req[i].event.end.dateTime

\* C14 (as stated): a /schedule-event request is answered success: true
\* exactly when its insert succeeded, and the response then carries the id
\* and the link of the insert with the summary, start, end and attendees of
\* the event that was sent.
C14_Original ==
    [][\A i \in Slots :
          Responds(i) =>
             /\ req'[i].res.status = 200 <=>
                   (req[i].pc = "awaitCalendar" /\ req'[i].failure = "none")
             /\ req'[i].res.status = 200 =>
                   /\ Echoes(i)
                   /\ req'[i].res.body.hasAttendees
                   /\ req'[i].res.body.attendees = req[i].event.attendees]_vars

\* C14 (amended): the same, with the attendees carried only by the second
\* revision of server.js; the first revision and part_000 send id, link,
\* summary, start and end.
C14_SuccessIffInserted ==
    [][\A i \in Slots :
          Responds(i) =>
             /\ req'[i].res.status = 200 <=>
                   (req[i].pc = "awaitCalendar" /\ req'[i].failure = "none")
             /\ req'[i].res.status = 200 =>
                   /\ Echoes(i)
                   /\ req'[i].res.body.hasAttendees <=> build = "server2"
                   /\ build = "server2" =>
                         req'[i].res.body.attendees = req[i].event.attendees]_vars

C14_Witness ==
    \E i \in Slots :
        /\ Scheduled(i)
        /\ req[i].res.status = 200
        /\ req[i].res.body.summary = "Team meeting"
        /\ req[i].res.body.hasAttendees
        /\ req[i].res.body.attendees # <<>>

----------------------------------------------------------------------------
(* POST /auth/url on its own: every configuration and every store *)

UrlInit ==
    /\ build \in Builds
    /\ apiKeySet = TRUE
    /\ oauthConfigured \in BOOLEAN
    /\ probe = NoProbe
    /\ req = [i \in Slots |-> IdleSlot]
    /\ \E held \in [Users -> Tokens \cup {NoTokens}] :
         /\ userTokens = {<<u, held[u]>> : u \in {v \in Users : held[v] # NoTokens}}
         /\ lastOp = [u \in Users |->
                        IF held[u] = NoTokens THEN NoOp ELSE PutOp(held[u])]

UrlNext == \E i \in Slots : \E userId \in Users \cup {NoUser} : AuthUrl(i, userId)

UrlSpec == UrlInit /\ [][UrlNext]_vars

\* the step sends the response of the /auth/url request of slot i
UrlResponds(i) ==
    /\ req'[i] # req[i]
    /\ req'[i].kind = "authUrl"

\* the response carries the consent URL with state = userId, and the userId
CarriesUrl(r) ==
    /\ r.res.status = 200
    /\ r.res.body.authUrl.state = r.userId
    /\ r.res.body.userId = r.userId

\* C15 (as stated): /auth/url answers 400 without userId, 500 when the client
\* id or the client secret is not configured, and otherwise the consent URL
\* with state = userId and the userId; the request is answered at once,
\* without a code exchange, and the store is left as it is.
C15_Original ==
    [][\A i \in Slots :
          UrlResponds(i) =>
             /\ req'[i].pc = "done"
             /\ userTokens' = userTokens
             /\ IF req'[i].userId = NoUser THEN req'[i].res.status = 400
                ELSE IF ~oauthConfigured THEN req'[i].res.status = 500
                ELSE CarriesUrl(req'[i])]_vars

\* C15 (amended): only the second revision of server.js checks the client
\* credentials and answers 500; the first revision and part_000 answer the
\* consent URL also when they are not configured.
C15_AuthUrl ==
    [][\A i \in Slots :
          UrlResponds(i) =>
             /\ req'[i].pc = "done"
             /\ userTokens' = userTokens
             /\ IF req'[i].userId = NoUser THEN req'[i].res.status = 400
                ELSE IF build = "server2" /\ ~oauthConfigured
                THEN req'[i].res.status = 500
                ELSE CarriesUrl(req'[i])]_vars

C15_Witness ==
    \E i \in Slots :
        /\ req[i].pc = "done"
        /\ req[i].kind = "authUrl"
        /\ req[i].userId # NoUser
        /\ req[i].res.status = 500
        /\ ~oauthConfigured
        /\ userTokens # {}

\* the step of the /oauth2callback request of slot i
CallbackStep(i) == req'[i] # req[i] /\ req'[i].kind = "callback"

\* the store after the step differs from the store before only in the entry
\* of userId, which holds a credential of the provider
Stored(userId) ==
    \E t \in Tokens :
        userTokens' = {e \in userTokens : e[1] # userId} \cup {<<userId, t>>}

\* what holds of every step of a callback, whatever the revision
CallbackFrame(i) ==
    /\ req'[i].pc = "awaitToken" =>
          /\ req[i].pc \in {"idle", "done"}
          /\ req'[i].code # NoCode
          /\ req'[i].userId # NoUser
          /\ userTokens' = userTokens
    /\ req'[i].pc = "done" =>
          IF req[i].pc = "awaitToken"
          THEN /\ req'[i].res.status \in {200, 500}
               /\ req'[i].res.status = 200 => Stored(req[i].userId)
               /\ req'[i].res.status = 500 => userTokens' = userTokens
          ELSE userTokens' = userTokens

\* C16 (as stated): /oauth2callback stores a credential under U only when it
\* carried a code and state = U and the exchange succeeded; without code or
\* without state it answers 400 and attempts no exchange; when the exchange
\* fails it answers 500; a failure leaves the store as it is.
C16_Original ==
    [][\A i \in Slots :
          CallbackStep(i) =>
             /\ CallbackFrame(i)
             /\ (req'[i].code = NoCode \/ req'[i].userId = NoUser) =>
                   (req'[i].pc = "done" /\ req'[i].res.status = 400)]_vars

\* C16 (amended): the same, except that the second revision of server.js
\* first looks at the error parameter of the callback: with it the request is
\* answered by the cancellation page (status 200) whether or not code and
\* state are there, without an exchange and without a change of the store.
C16_Callback ==
    [][\A i \in Slots :
          CallbackStep(i) =>
             /\ CallbackFrame(i)
             /\ (req'[i].code = NoCode \/ req'[i].userId = NoUser) =>
                   /\ req'[i].pc = "done"
                   /\ \/ req'[i].res.status = 400
                      \/ /\ build = "server2"
                         /\ req'[i].res.status = 200
                         /\ req'[i].res.action = "cancelled"
             /\ (req[i].pc # "awaitToken" /\ req'[i].pc = "done") =>
                   \/ /\ req'[i].res.status = 400
                      /\ (req'[i].code = NoCode \/ req'[i].userId = NoUser)
                   \/ /\ build = "server2"
                      /\ req'[i].res.status = 200
                      /\ req'[i].res.action = "cancelled"]_vars

C16_Witness ==
    \E i \in Slots :
        /\ req[i].pc = "done"
        /\ req[i].kind = "callback"
        /\ req[i].res.status = 500
        /\ req[i].code # NoCode
        /\ MapHas(userTokens, req[i].userId)

\* slot i holds the response of a /auth/status request
StatusAnswered(i) == req[i].pc = "done" /\ req[i].kind = "authStatus"

\* C17: /auth/status/U answers authenticated: true exactly when the store
\* holds an entry for U, which is exactly when the last completed store
\* operation on U is the userTokens.set of a code exchange and not a
\* deletion; for a U never authorized it answers false; the store is left
\* as it is.
C17_StatusReflectsStore ==
    \A i \in Slots :
        StatusAnswered(i) =>
            /\ req[i].res.status = 200
            /\ req[i].res.body.userId = req[i].userId
            /\ req[i].res.body.authenticated <=>
                   (\E t \in Tokens : <<req[i].userId, t>> \in userTokens)
            /\ req[i].res.body.authenticated <=> lastOp[req[i].userId].op = "set"
            /\ lastOp[req[i].userId] = NoOp => ~req[i].res.body.authenticated
            /\ ~req[i].changed

C17_Witness ==
    \E i \in Slots :
        /\ StatusAnswered(i)
        /\ ~req[i].res.body.authenticated
        /\ lastOp[req[i].userId] = NoOp
        /\ userTokens # {}

\* slot i holds a consent URL
UrlAnswered(i) ==
    req[i].pc = "done" /\ req[i].kind = "authUrl" /\ req[i].res.status = 200

\* C18: the consent URL of a /auth/url response is fixed by the revision and
\* the userId of the request: whatever the store holds and whatever was
\* handled before, its parameters are the same, and the userId shows only in
\* the state parameter.
C18_UrlDeterministic ==
    \A i \in Slots :
        UrlAnswered(i) =>
            /\ req[i].res.body.authUrl.state = req[i].userId
            /\ [req[i].res.body.authUrl EXCEPT !.state = NoUser] =
                  [access_type |-> "offline", prompt |-> "consent", state |-> NoUser,
                   include_granted_scopes |-> build # "part000"]

C18_Witness ==
    \E i \in Slots :
        /\ UrlAnswered(i)
        /\ req[i].userId = "u2"
        /\ MapHas(userTokens, "u2")
        /\ ~MapHas(userTokens, "u1")

\* the closing braces of the text that follow its first opening brace
ClosingAfterFirst(text) ==
    {k \in Positions(text, "}") : k > Min(Positions(text, "{"))}

\* the first balanced {...} substring of a text that has one (objects do not nest)
FirstObject(text) ==
    SubSeq(text, Min(Positions(text, "{")), Min(ClosingAfterFirst(text)))

\* the text holds a well-formed object followed by text with a closing brace
ObjectThenBrace(text) ==
    /\ Positions(text, "{") # {}
    /\ Cardinality(ClosingAfterFirst(text)) >= 2
    /\ JsonParses(FirstObject(text))

\* C19: when the text of the completion holds a well-formed JSON object
\* followed by further text with a closing brace, parseScheduleRequest
\* returns the first object.
C19_FirstObjectWins ==
    (Completed /\ ObjectThenBrace(probe.llm.candidate)) =>
        /\ ~probe.result.threw
        /\ probe.result.value = JsonParse(FirstObject(probe.llm.candidate))

\* The instant (epoch ms) the calendar reads from the start or the end of an
\* event: a dateTime with a zone designator names it, one without is read in
\* the timeZone beside it ("local" is the zone of the process, tz east of UTC)
Instant(side, tz) ==
    IF side.dateTime.zone = "Z" THEN side.dateTime.ms
    ELSE IF side.timeZone = "UTC" THEN side.dateTime.ms
    ELSE side.dateTime.ms - tz

\* C20: for an intent with startDateTime and without endDateTime the end of
\* the event is one hour after its start; an endDateTime of the intent is the
\* end of the event as it is; start and end carry the same timeZone.
C20_EndFollowsStart ==
    (/\ probe.stage = "output"
     /\ ~probe.result.threw
     /\ probe.d.startDateTime.zone = "local") =>
        /\ probe.result.event.start.timeZone = probe.result.event.end.timeZone
        /\ probe.d.endDateTime # NoDate =>
              probe.result.event.end.dateTime = probe.d.endDateTime
        /\ probe.d.endDateTime = NoDate =>
              /\ probe.result.event.end.dateTime # NoDate
              /\ Instant(probe.result.event.end, probe.tz) =
                    Instant(probe.result.event.start, probe.tz) + HourMs

----------------------------------------------------------------------------
(* POST /schedule-event with providers that answer every call *)

\* the answer of the LLM provider reaches the handler of slot i
LLMAnswers(i) ==
    \E llm \in LLMResponses, now \in Nows, drift \in 0..MaxDrift, tz \in TzOffsets :
        LLMReturns(i, llm, now, drift, tz)

\* the answer of the calendar provider reaches the handler of slot i
CalendarAnswers(i) ==
    \/ \E id \in EventIds : CalendarSucceeds(i, id)
    \/ \E text \in ProviderTexts : CalendarFails(i, text)

\* (a request is in flight only in a process that has its API key)
ScheduleInit ==
    /\ build \in Builds
    /\ apiKeySet = TRUE
    /\ oauthConfigured = TRUE
    /\ probe = NoProbe
    /\ req = [i \in Slots |-> IdleSlot]
    /\ \E held \in [Users -> Tokens \cup {NoTokens}] :
         /\ userTokens = {<<u, held[u]>> : u \in {v \in Users : held[v] # NoTokens}}
         /\ lastOp = [u \in Users |->
                        IF held[u] = NoTokens THEN NoOp ELSE PutOp(held[u])]

ScheduleNext ==
    \E i \in Slots :
        \/ \E userQuery \in {NoQuery, "q"}, userId \in Users \cup {NoUser} :
              ScheduleArrive(i, userQuery, userId)
        \/ LLMAnswers(i)
        \/ CalendarAnswers(i)

\* every awaited call of fetch and of calendar.events.insert settles
ScheduleSpec ==
    /\ ScheduleInit
    /\ [][ScheduleNext]_vars
    /\ \A i \in Slots : WF_vars(LLMAnswers(i)) /\ WF_vars(CalendarAnswers(i))

\* C21: when every call of the LLM provider and of the calendar provider
\* returns, a /schedule-event request that awaits one is answered in the end,
\* with the status of exactly one terminal state; an error of
\* parseScheduleRequest, of the event literal or of the insert is caught by
\* the handler and answered.
C21_EventuallyAnswered ==
    \A i \in Slots :
        (req[i].kind = "schedule" /\ req[i].pc \in {"awaitLLM", "awaitCalendar"})
            ~> (/\ req[i].kind = "schedule"
                /\ req[i].pc = "done"
                /\ req[i].res.status \in {200, 401, 403, 500}
                /\ req[i].failure # "none" <=> req[i].res.status # 200)

C21_Witness ==
    \E i \in Slots :
        /\ Scheduled(i)
        /\ req[i].failure = "event"
        /\ req[i].res.status = 500
        /\ req[i].res.details = req[i].caught

\* the entries the store holds for userId u
EntryOf(m, u) == {e \in m : e[1] = u}

\* C22: a step changes the store entry of a userId only when it ends a
\* request made for that userId; no request for another userId adds, changes
\* or removes it, however the requests interleave.
C22_UserIsolation ==
    [][\A u \in Users :
          EntryOf(userTokens', u) # EntryOf(userTokens, u) =>
             \E i \in Slots :
                /\ req'[i] # req[i]
                /\ req'[i].pc = "done"
                /\ req'[i].kind \in {"schedule", "callback"}
                /\ req'[i].userId = u]_vars

C22_Witness ==
    \E i \in Slots, u \in Users :
        /\ CalendarFailed(i)
        /\ req[i].changed
        /\ req[i].res.status = 401
        /\ u # req[i].userId
        /\ MapHas(userTokens, u)
        /\ \E j \in Slots : req[j].pc = "awaitCalendar" /\ req[j].userId = u

-----------------------------------------------------------------------------
(* The catch block of POST /schedule-event, for every error message *)

\* the pieces of text the catch block looks for, and one it does not
Fragments ==
    {"invalid_grant", "token expired", "invalid_token",
     "insufficient permission", "insufficient permissions",
     "Calendar API has not been used", "Rate Limit Exceeded"}

\* error.message: a text with "insufficient permissions" holds "insufficient permission"
Messages ==
    {m \in SUBSET Fragments :
        "insufficient permissions" \in m => "insufficient permission" \in m}

CatchInit ==
    /\ build \in Builds
    /\ apiKeySet = TRUE
    /\ oauthConfigured = TRUE
    /\ req = [i \in Slots |-> IdleSlot]
    /\ \E held \in [Users -> Tokens \cup {NoTokens}] :
         /\ userTokens = {<<u, held[u]>> : u \in {v \in Users : held[v] # NoTokens}}
         /\ lastOp = [u \in Users |->
                        IF held[u] = NoTokens THEN NoOp ELSE PutOp(held[u])]
    /\ \E message \in Messages, userId \in Users :
         probe = [stage |-> "input", message |-> message, userId |-> userId,
                  before |-> userTokens, res |-> NoResponse]

\* catch (error) { if (...) { userTokens.delete(...); return res.status(401)... } ... }
EvaluateCatch ==
    /\ probe.stage = "input"
    /\ probe' = [probe EXCEPT !.stage = "output",
                              !.res = CatchResponse(build, probe.message)]
    /\ userTokens' = CatchStore(build, userTokens, probe.userId, probe.message)
    /\ lastOp' = IF IsExpired(build, probe.message)
                 THEN [lastOp EXCEPT ![probe.userId] = DeleteOp]
                 ELSE lastOp
    /\ UNCHANGED <<build, apiKeySet, oauthConfigured, req>>

CatchNext == EvaluateCatch

CatchSpec == CatchInit /\ [][CatchNext]_vars

\* the catch block has classified the message of the probe
Classified == probe.stage = "output"

\* the store after the catch block has lost exactly the entry of the userId
Deleted ==
    userTokens = {e \in probe.before : e[1] # probe.userId}

\* the expiry and permission texts of the latest revision
ExpiryText(message) ==
    \/ "invalid_grant" \in message
    \/ "token expired" \in message
    \/ "invalid_token" \in message

PermissionText(message) ==
    \/ "insufficient permission" \in message
    \/ "Calendar API has not been used" \in message

\* C24 (as stated): the response is a function of the message alone: a message
\* with an expiry text yields 401 "reauthenticate" and the deletion of the
\* credential, also when it has a permission text too; otherwise a message
\* with a permission text yields 403; every other message yields 500; the
\* store changes only in the first case.
C24_Original ==
    Classified =>
        /\ probe.res.status \in {401, 403, 500}
        /\ ExpiryText(probe.message) =>
              (probe.res.status = 401 /\ probe.res.action = "reauthenticate" /\ Deleted)
        /\ (~ExpiryText(probe.message) /\ PermissionText(probe.message)) =>
              (probe.res.status = 403 /\ userTokens = probe.before)
        /\ (~ExpiryText(probe.message) /\ ~PermissionText(probe.message)) =>
              (probe.res.status = 500 /\ userTokens = probe.before)

\* the texts each revision tests for expiry
ExpiryTextOf(b, message) ==
    \/ "invalid_grant" \in message
    \/ "token expired" \in message
    \/ (b = "server2" /\ "invalid_token" \in message)

\* the texts each revision tests for missing permission; part_000 tests none
PermissionTextOf(b, message) ==
    \/ (b = "server1" /\ "insufficient permissions" \in message)
    \/ (b = "server2" /\ "insufficient permission" \in message)
    \/ (b = "server2" /\ "Calendar API has not been used" \in message)

\* C24 (amended): in every revision the response is a function of the message
\* with the expiry texts of that revision tested first, then its permission
\* texts, then the generic case: an expiry text yields 401 and the deletion of
\* the credential whatever else the message holds (action "reauthenticate" in
\* server.js, "Re-authenticate via /auth/url" in part_000); otherwise a
\* permission text yields 403; every other message yields 500 carrying the
\* message; the store is left alone in the last two cases.
C24_Classification ==
    Classified =>
        /\ probe.res.status \in {401, 403, 500}
        /\ ExpiryTextOf(build, probe.message) =>
              /\ probe.res.status = 401
              /\ probe.res.action =
                   (IF build = "part000" THEN "Re-authenticate via /auth/url"
                    ELSE "reauthenticate")
              /\ Deleted
        /\ (~ExpiryTextOf(build, probe.message) /\ PermissionTextOf(build, probe.message)) =>
              (probe.res.status = 403 /\ userTokens = probe.before)
        /\ (~ExpiryTextOf(build, probe.message) /\ ~PermissionTextOf(build, probe.message)) =>
              /\ probe.res.status = 500
              /\ probe.res.details = probe.message
              /\ userTokens = probe.before

C24_Witness ==
    /\ Classified
    /\ build = "server2"
    /\ "invalid_grant" \in probe.message
    /\ "insufficient permission" \in probe.message
    /\ probe.res.status = 401
    /\ MapHas(probe.before, probe.userId)
    /\ ~MapHas(userTokens, probe.userId)

====
